---- MODULE Spec2Model ----
(***************************************************************************)
(* Code admission and sandboxed execution of report code                   *)
(* (europa-bi-dashboard: main.py, config.py, db_manager.py).               *)
(*                                                                         *)
(* A source text is modelled by its syntax tree (the statements at module  *)
(* level and the statements nested in the one function it defines) and by  *)
(* its raw text, rendered from the tree as a sequence of tokens.  The      *)
(* import check walks the tree; the pattern check searches the text.       *)
(***************************************************************************)
EXTENDS Integers, Sequences, FiniteSets, TLC

\* ---------------------------------------------------------------- bounds
MaxAttempts == 2        \* executions started through run_selected_report
MaxDirect == 2          \* executions started by calling _execute_report directly
MaxIngests == 2         \* calls of ingest_new_files
MaxFiles == 3           \* files put into data-in, all calls together

\* ---------------------------------------------------------------- config.py
REPORT_TIMEOUT_SECONDS == 45

ALLOWED_EXTENSIONS == {".csv", ".xlsx"}

ALLOWED_IMPORTS == {"pandas", "sqlite3", "gradio", "json"}

FORBIDDEN_PATTERNS ==
    << <<"import", "os">>, <<"import", "sys">>, <<"import", "subprocess">>,
       <<"import", "shutil">>, <<"import", "requests">>, <<"import", "urllib">>,
       <<"import", "socket">>, <<"import", "threading">>, <<"import", "ctypes">>,
       <<"import", "eval">>, <<"import", "compile">>,
       <<"open(">>, <<".to_csv(">>, <<".to_excel(">>, <<".to_pickle(">>,
       <<".to_json(">> >>

\* ---------------------------------------------------------------- source texts
None == "<None>"

\* module names that occur in the modelled submissions
ModuleNames == {"pandas", "os", "pickle"}
\* names imported by a from-style import
ImportedNames == {"x", "os"}
\* other statements: calls whose text is one token, and a statement without effect
OtherTokens == {"open(", ".to_csv(", "pass"}

ImportStmt(names) ==
    [kind |-> "Import", names |-> names, module |-> None, level |-> 0, tok |-> "x"]
ImportFromStmt(module, level, name) ==
    [kind |-> "ImportFrom", names |-> <<>>, module |-> module, level |-> level,
     tok |-> name]
OtherStmt(tok) ==
    [kind |-> "Other", names |-> <<>>, module |-> None, level |-> 0, tok |-> tok]

ImportStmts ==
    {ImportStmt(<<m>>) : m \in ModuleNames}
        \cup {ImportStmt(<<m, n>>) : m \in ModuleNames, n \in ModuleNames}
\* "from import x" (no module, level 0) is no statement of the language
ImportFromStmts ==
    {ImportFromStmt(m, l, n) : m \in ModuleNames, l \in {0, 1}, n \in ImportedNames}
        \cup {ImportFromStmt(None, 1, n) : n \in ImportedNames}
OtherStmts == {OtherStmt(t) : t \in OtherTokens}
Stmts == ImportStmts \cup ImportFromStmts \cup OtherStmts

StmtLists == {<<>>} \cup {<<s>> : s \in Stmts}

\* parses: ast.parse accepts the text; top: module-level statements before the
\* function definition; def: the function the text defines; body: its statements
MkSource(parses, top, def, body) ==
    [parses |-> parses, top |-> top, def |-> def, body |-> body]

SyntaxErrorSource == MkSource(FALSE, <<>>, "none", <<>>)
EmptySource == MkSource(TRUE, <<>>, "none", <<>>)

AllSources ==
    {SyntaxErrorSource}
        \cup {MkSource(TRUE, t, "none", <<>>) : t \in StmtLists}
        \cup {MkSource(TRUE, t, d, b) :
                t \in StmtLists, d \in {"generate_report", "helper"}, b \in StmtLists}

\* the raw text of a statement, as tokens
StmtText(s) ==
    CASE s.kind = "Import" ->
            IF Len(s.names) = 1 THEN <<"import", s.names[1]>>
            ELSE <<"import", s.names[1], ",", s.names[2]>>
      [] s.kind = "ImportFrom" ->
            IF s.level = 0 THEN <<"from", s.module, "import", s.tok>>
            ELSE IF s.module = None THEN <<"from", ".", "import", s.tok>>
            ELSE <<"from", ".", s.module, "import", s.tok>>
      [] OTHER -> <<s.tok>>

RECURSIVE TextOf(_)
TextOf(stmts) ==
    IF stmts = <<>> THEN <<>> ELSE StmtText(Head(stmts)) \o <<"\n">> \o TextOf(Tail(stmts))

\* the raw text of a source that parses
SourceText(src) ==
    TextOf(src.top)
        \o (IF src.def = "none" THEN <<>>
            ELSE <<"def", src.def, "(db_path):", "\n">> \o TextOf(src.body))

\* pattern in text: the pattern occurs as a contiguous run of the text
Contains(text, pattern) ==
    \E i \in 1..Len(text) :
        /\ i + Len(pattern) - 1 <= Len(text)
        /\ \A j \in 1..Len(pattern) : text[i + j - 1] = pattern[j]

\* ast.walk: breadth first, the module's statements before the function's
AstWalk(src) == src.top \o src.body

\* ---------------------------------------------------------------- _scan_code_safety
Verdict(admitted, kind, detail) ==
    [admitted |-> admitted, kind |-> kind, detail |-> detail]

Admit == Verdict(TRUE, "", <<>>)

\* main.py 198-204: the module a node is rejected for, or None
ImportFromOffends(node) ==
    node.module # None /\ node.module \notin ALLOWED_IMPORTS

OffendingNames(node) ==
    IF node.kind = "Import"
    THEN SelectSeq(node.names, LAMBDA n : n \notin ALLOWED_IMPORTS)
    ELSE IF node.kind = "ImportFrom" /\ ImportFromOffends(node)
    THEN <<node.module>>
    ELSE <<>>

RECURSIVE FirstForbiddenImport(_)
FirstForbiddenImport(nodes) ==
    IF nodes = <<>> THEN None
    ELSE IF OffendingNames(Head(nodes)) # <<>> THEN OffendingNames(Head(nodes))[1]
    ELSE FirstForbiddenImport(Tail(nodes))

\* main.py 206-209: the first configured pattern found in the text, or 0
FirstForbiddenPattern(text) ==
    IF \E i \in 1..Len(FORBIDDEN_PATTERNS) : Contains(text, FORBIDDEN_PATTERNS[i])
    THEN CHOOSE i \in 1..Len(FORBIDDEN_PATTERNS) :
            /\ Contains(text, FORBIDDEN_PATTERNS[i])
            /\ \A k \in 1..(i - 1) : ~Contains(text, FORBIDDEN_PATTERNS[k])
    ELSE 0

_scan_code_safety(code) ==
    IF ~code.parses THEN Verdict(FALSE, "Syntax error", <<>>)
    ELSE IF FirstForbiddenImport(AstWalk(code)) # None
    THEN Verdict(FALSE, "Forbidden import", <<FirstForbiddenImport(AstWalk(code))>>)
    ELSE IF FirstForbiddenPattern(SourceText(code)) # 0
    THEN Verdict(FALSE, "Forbidden pattern detected",
                 FORBIDDEN_PATTERNS[FirstForbiddenPattern(SourceText(code))])
    ELSE Admit

\* ---------------------------------------------------------------- messages
Text(tokens, len) == [text |-> tokens, len |-> len]
NoText == Text(<<>>, 0)

\* what the worker puts on the queue: (status, result)
Message(status, shape, error, big) ==
    [status |-> status, shape |-> shape, error |-> error, big |-> big]

\* (success, result, error) as _execute_report returns it
Result(success, result, error) ==
    [success |-> success, result |-> result, error |-> error]

ScanFailure(v) == Result(FALSE, None, Text(<<"Security scan failed", v.kind>> \o v.detail, 60))
TimeoutResult ==
    Result(FALSE, None,
           Text(<<"Execution timeout", ToString(REPORT_TIMEOUT_SECONDS)>>, 70))
NoResultProduced ==
    Result(FALSE, None, Text(<<"No result returned from report function">>, 40))
EntryNotFound == Text(<<"Function 'generate_report(db_path)' not found">>, 45)
\* "{type(e).__name__}: {str(e)}\n{traceback.format_exc()}"
FaultText(category, big) ==
    Text(<<category, "traceback">>, IF big THEN 100000 ELSE 300)

\* ---------------------------------------------------------------- submissions run
Pass == OtherStmt("pass")
CleanReport == MkSource(TRUE, <<>>, "generate_report", <<Pass>>)
HelperOnly == MkSource(TRUE, <<>>, "helper", <<Pass>>)
ImportsPandas == MkSource(TRUE, <<ImportStmt(<<"pandas">>)>>, "generate_report", <<Pass>>)
ImportsOs == MkSource(TRUE, <<ImportStmt(<<"os">>)>>, "generate_report", <<Pass>>)
CallsOpen == MkSource(TRUE, <<>>, "generate_report", <<OtherStmt("open(")>>)

ExecSources ==
    {CleanReport, HelperOnly, ImportsPandas, ImportsOs, CallsOpen, SyntaxErrorSource,
     EmptySource}

Names == {"sales", "stock"}
NameInputs == Names \cup {"", "Please select a report."}
NoReport == MkSource(FALSE, <<>>, "absent", <<>>)

\* what the entry point of an admitted submission does when it is called
Behaviour(kind, shape, category, big, mutates) ==
    [kind |-> kind, shape |-> shape, category |-> category, big |-> big,
     mutates |-> mutates]
NoBehaviour == Behaviour("none", "", "", FALSE, FALSE)
EntryBehaviours ==
    { Behaviour("return", "table", "", FALSE, FALSE),
      Behaviour("return", "table", "", TRUE, FALSE),
      Behaviour("return", "chart", "", FALSE, FALSE),
      Behaviour("return", "none", "", FALSE, FALSE),
      Behaviour("return", "number", "", FALSE, FALSE),
      Behaviour("return", "table", "", FALSE, TRUE),
      Behaviour("raise", "", "ZeroDivisionError", FALSE, FALSE),
      Behaviour("raise", "", "JSONDecodeError", TRUE, FALSE),
      Behaviour("raise", "", "SystemExit", FALSE, FALSE),
      Behaviour("exit", "", "", FALSE, FALSE),
      Behaviour("loop", "", "", FALSE, FALSE) }

\* faults that "except Exception" catches; SystemExit, KeyboardInterrupt and
\* GeneratorExit derive from BaseException only
ExceptionCategories ==
    {"ZeroDivisionError", "JSONDecodeError", "ImportError", "SyntaxError",
     "OperationalError"}

HasImport(stmts) ==
    \E i \in 1..Len(stmts) : stmts[i].kind \in {"Import", "ImportFrom"}

\* main.py 220-226: the names of the namespace the submission runs in.  The
\* builtins are empty, so an import statement finds no __import__.  The
\* connection opened read-only at line 228 is a local of the worker function and
\* is not among them; db_path is the plain path.
restricted_globals == {"__builtins__", "pandas", "sqlite3", "json", "db_path"}
BuiltinsAvailable == {}
DbPathMode == "rw"

\* the submission can open a connection that accepts writes
WritableStoreReachable ==
    /\ "sqlite3" \in restricted_globals
    /\ "db_path" \in restricted_globals
    /\ DbPathMode = "rw"

\* ---------------------------------------------------------------- db_manager.py: ingestion
\* a column name is a sequence of characters
ColSku == <<"s", "k", "u">>
ColSkuRaw == <<"S", "k", "u", " ">>
ColQty == <<"q", "t", "y">>
ColId == <<"i", "d">>

\* db_manager.py 34-38: the columns data_records is created with
ReservedColumns ==
    { <<"i", "d">>, <<"f", "i", "l", "e", "_", "i", "d">>,
      <<"r", "o", "w", "_", "h", "a", "s", "h">>,
      <<"d", "a", "t", "a", "_", "j", "s", "o", "n">> }

\* str.lower on the characters that occur
Lower(ch) == CASE ch = "S" -> "s" [] ch = "Q" -> "q" [] OTHER -> ch

RECURSIVE StripLeft(_)
StripLeft(col) ==
    IF col # <<>> /\ Head(col) = " " THEN StripLeft(Tail(col)) ELSE col

RECURSIVE StripRight(_)
StripRight(col) ==
    IF col # <<>> /\ col[Len(col)] = " " THEN StripRight(SubSeq(col, 1, Len(col) - 1))
    ELSE col

\* col.strip().replace(" ", "_").lower()
_normalize_column_name(col) ==
    [i \in 1..Len(StripRight(StripLeft(col))) |->
        Lower(IF StripRight(StripLeft(col))[i] = " " THEN "_"
              ELSE StripRight(StripLeft(col))[i])]

\* a file of data-in: its suffix, its header and its rows, each row one value
\* per column
MkFile(suffix, cols, rows) == [suffix |-> suffix, cols |-> cols, rows |-> rows]

\* the files with a reserved column have no other column, so no column is added
\* before the ALTER TABLE that fails
Files ==
    {MkFile(".csv", <<ColSku>>, r) : r \in {<<<<1>>, <<2>>>>, <<<<1>>, <<1>>>>}}
        \cup {MkFile(".xlsx", <<ColSkuRaw>>, <<<<1>>, <<2>>>>),
              MkFile(".csv", <<ColSku, ColQty>>, <<<<1, 1>>>>),
              MkFile(".csv", <<ColQty, ColSku>>, <<<<1, 1>>>>),
              MkFile(".csv", <<ColId>>, <<<<1>>>>),
              MkFile(".txt", <<ColSku>>, <<<<1>>>>)}

\* db_manager.py 90: the header with its names normalized
DfColumns(file) == [i \in 1..Len(file.cols) |-> _normalize_column_name(file.cols[i])]

\* row.to_dict(): the pairs (column, value) of a row, in the order of the header
RowData(file, row) == [i \in 1..Len(row) |-> <<DfColumns(file)[i], row[i]>>]

RowsData(file) == [k \in 1..Len(file.rows) |-> RowData(file, file.rows[k])]

\* db_manager.py 56-58: the digest of json.dumps(row_data, sort_keys=True), which
\* does not depend on the order of the keys; two texts are taken to have two
\* digests
_get_file_hash(row_data) == {row_data[i] : i \in 1..Len(row_data)}

\* the table takes any row, whatever is stored
UniqueViolated_NoConstraint(table, row_hash) == FALSE

\* db_manager.py 40: UNIQUE(row_hash), the IntegrityError of line 134
UniqueViolated(table, row_hash) == \E r \in table : r.row_hash = row_hash

\* db_manager.py 121-135: the rows inserted one by one; acc is the table, the
\* last id given and the two counts
RECURSIVE InsertRows(_, _, _)
InsertRows(rows_data, file_id, acc) ==
    IF rows_data = <<>> THEN acc
    ELSE IF UniqueViolated(acc.table, _get_file_hash(Head(rows_data)))
    THEN InsertRows(Tail(rows_data), file_id, [acc EXCEPT !.skipped = @ + 1])
    ELSE InsertRows(Tail(rows_data), file_id,
            [table |-> acc.table \cup
                        {[id |-> acc.seq + 1, file_id |-> file_id,
                          row_hash |-> _get_file_hash(Head(rows_data)),
                          data_json |-> Head(rows_data)]},
             seq |-> acc.seq + 1,
             imported |-> acc.imported + 1,
             skipped |-> acc.skipped])

\* db_manager.py 96-106: a header name that data_records was created with makes
\* ALTER TABLE ADD COLUMN fail
SchemaClash(file) ==
    \E i \in 1..Len(DfColumns(file)) : DfColumns(file)[i] \in ReservedColumns

Store(table, seq, files, cols) ==
    [table |-> table, seq |-> seq, files |-> files, cols |-> cols]

\* db_manager.py 81-141: the store after the file, and the two counts
_process_file(file, st) ==
    LET done == InsertRows(RowsData(file), Len(st.files) + 1,
                           [table |-> st.table, seq |-> st.seq, imported |-> 0,
                            skipped |-> 0])
    IN [store |-> Store(done.table, done.seq, Append(st.files, Len(file.rows)),
                        st.cols \cup {DfColumns(file)[i] : i \in 1..Len(file.cols)}),
        imported |-> done.imported,
        skipped |-> done.skipped]

Hashes(table) == {r.row_hash : r \in table}

\* db_manager.py 152-172: the files of data-in one after the other; run is the
\* store, the archive, the files left in data-in and the two result lists
RECURSIVE IngestAll(_, _)
IngestAll(files, run) ==
    IF files = <<>> THEN run
    ELSE IF Head(files).suffix \notin ALLOWED_EXTENSIONS
    THEN IngestAll(Tail(files), [run EXCEPT !.left = Append(@, Head(files))])
    ELSE IF SchemaClash(Head(files))
    THEN IngestAll(Tail(files),
            [run EXCEPT !.left = Append(@, Head(files)),
                        !.errors = Append(@, [file |-> Head(files),
                                               before |-> Hashes(run.store.table)])])
    ELSE LET done == _process_file(Head(files), run.store)
         IN IngestAll(Tail(files),
                [run EXCEPT
                    !.store = done.store,
                    !.archive = @ + 1,
                    !.processed = Append(@,
                        [file |-> Head(files),
                         imported |-> done.imported,
                         skipped |-> done.skipped,
                         before |-> Hashes(run.store.table),
                         after |-> Hashes(done.store.table)])])

StartRun(st, archived) ==
    [store |-> st, archive |-> archived, left |-> <<>>, processed |-> <<>>,
     errors |-> <<>>]

\* db_manager.py 22-53: the tables as _init_db creates them
EmptyStore == Store({}, 0, <<>>, ReservedColumns)

\* the store the reports run on: one file with two rows was ingested
SeedFile == MkFile(".csv", <<ColSku>>, <<<<1>>, <<2>>>>)
SeededRun == IngestAll(<<SeedFile>>, StartRun(EmptyStore, 0))

\* ---------------------------------------------------------------- state
VARIABLES
    registry,       \* reports table: name -> code, NoReport where there is none
    audit_log,      \* execution_audit.jsonl, a sequence of records
    db,             \* rows of data_records
    pc,             \* where the calling thread is
    caller,         \* who called _execute_report
    req,            \* the request: report name and code
    verdict,        \* the scan's verdict for the request
    wstate,         \* the worker process
    behaviour,      \* what the submission's entry point does in this run
    wbuf,           \* the queue's buffer in the worker, before its feeder writes it
    pipe,           \* the queue's pipe, as the supervisor reads it
    expired,        \* the bounded join's timeout has elapsed
    ret,            \* what _execute_report returned
    ui,             \* what the last handler returned to the presentation layer
    spawned,        \* processes started by the current call
    attempts,       \* executions started through run_selected_report
    directs,        \* direct calls of _execute_report
    posted,         \* the message the worker put before the deadline, if any
    fault,          \* the fault raised in the worker, if any
    db_before,      \* db when the current execution started
    alive_at_wait_end, \* the worker was alive when join(timeout) returned
    scan_in,        \* a source text given to the scanner alone
    scan_out,       \* the verdict for scan_in
    data_in,        \* the files of data-in, in the order iterdir gives them
    data_files,     \* table data_files: the row_count of each file, by id
    columns,        \* the columns of data_records
    row_seq,        \* the last id given to a row of data_records
    archive,        \* the number of files in data-archive
    ingest_out,     \* what the last ingest_new_files returned
    ingests         \* calls of ingest_new_files

vars ==
    <<registry, audit_log, db, pc, caller, req, verdict, wstate, behaviour, wbuf, pipe,
      expired, ret, ui, spawned, attempts, directs, posted, fault, db_before,
      alive_at_wait_end, scan_in, scan_out, data_in, data_files, columns, row_seq,
      archive, ingest_out, ingests>>

store_vars == <<registry, audit_log, db>>
count_vars == <<attempts, directs>>
scan_vars == <<scan_in, scan_out>>
ingest_vars == <<data_in, data_files, columns, row_seq, archive, ingest_out, ingests>>
run_vars ==
    <<pc, caller, req, verdict, wstate, behaviour, wbuf, pipe, expired, ret, spawned,
      posted, fault, db_before, alive_at_wait_end>>

NoRequest == [name |-> "", code |-> NoReport]
NoVerdict == Verdict(FALSE, "none", <<>>)
NoRet == Result(FALSE, None, Text(<<"pending">>, 0))
NoMessage == Message("none", "", NoText, FALSE)
InitialRows == SeededRun.store.table

IdleRun ==
    /\ pc = "idle"
    /\ caller = "none"
    /\ req = NoRequest
    /\ verdict = NoVerdict
    /\ wstate = "none"
    /\ behaviour = NoBehaviour
    /\ wbuf = <<>>
    /\ pipe = <<>>
    /\ expired = FALSE
    /\ ret = NoRet
    /\ spawned = 0
    /\ posted = NoMessage
    /\ fault = ""
    /\ db_before = db
    /\ alive_at_wait_end = FALSE

Init ==
    /\ registry = [n \in Names |-> NoReport]
    /\ audit_log = <<>>
    /\ db = InitialRows
    /\ IdleRun
    /\ ui = "loaded"
    /\ attempts = 0
    /\ directs = 0
    /\ scan_in = NoReport
    /\ scan_out = NoVerdict
    /\ data_in = <<>>
    /\ data_files = SeededRun.store.files
    /\ columns = SeededRun.store.cols
    /\ row_seq = SeededRun.store.seq
    /\ archive = SeededRun.archive
    /\ ingest_out = [processed |-> <<>>, errors |-> <<>>]
    /\ ingests = 0

Reset ==
    /\ pc' = "idle"
    /\ caller' = "none"
    /\ req' = NoRequest
    /\ verdict' = NoVerdict
    /\ wstate' = "none"
    /\ behaviour' = NoBehaviour
    /\ wbuf' = <<>>
    /\ pipe' = <<>>
    /\ expired' = FALSE
    /\ ret' = NoRet
    /\ spawned' = 0
    /\ posted' = NoMessage
    /\ fault' = ""
    /\ db_before' = db
    /\ alive_at_wait_end' = FALSE

\* ---------------------------------------------------------------- db_manager.py
\* save_report: INSERT into a table whose name column is UNIQUE
save_report_ok(reg, name) == reg[name] = NoReport
save_report(reg, name, code) ==
    IF save_report_ok(reg, name) THEN [reg EXCEPT ![name] = code] ELSE reg

\* ---------------------------------------------------------------- import_new_code
\* the registry is asked to save whatever the scan said
ImportMaySave_Unscanned(v) == TRUE

\* main.py 347-349: the scan decides whether the registry is asked to save
ImportMaySave(v) == v.admitted

import_new_code(code, name) ==
    /\ pc = "idle"
    /\ IF code = EmptySource \/ name = ""
       THEN /\ ui' = "Please provide both code and a report name."
            /\ registry' = registry
       ELSE IF ~ImportMaySave(_scan_code_safety(code))
       THEN /\ ui' = "Security scan failed"
            /\ registry' = registry
       ELSE /\ registry' = save_report(registry, name, code)
            /\ ui' = IF save_report_ok(registry, name) THEN "saved successfully"
                     ELSE "already exists"
    /\ UNCHANGED <<audit_log, db, run_vars, count_vars, scan_vars, ingest_vars>>

\* ---------------------------------------------------------------- _execute_report
\* the process is started whatever the scan said
MaySpawn_Always(v) == TRUE

\* main.py 246-248: a process is created only past this test
MaySpawn(v) == v.admitted

\* main.py 246-255: scan, then queue and process.start()
ExecuteStart(code, name, who) ==
    /\ verdict' = _scan_code_safety(code)
    /\ req' = [name |-> name, code |-> code]
    /\ caller' = who
    /\ db_before' = db
    /\ alive_at_wait_end' = FALSE
    /\ wbuf' = <<>>
    /\ pipe' = <<>>
    /\ expired' = FALSE
    /\ posted' = NoMessage
    /\ fault' = ""
    /\ IF ~MaySpawn(_scan_code_safety(code))
       THEN /\ ret' = ScanFailure(_scan_code_safety(code))
            /\ pc' = "returned"
            /\ spawned' = 0
            /\ wstate' = "none"
            /\ behaviour' = NoBehaviour
       ELSE /\ \E b \in EntryBehaviours : behaviour' = b
            /\ ret' = NoRet
            /\ pc' = "join"
            /\ spawned' = 1
            /\ wstate' = "running"

\* main.py 318-328
run_selected_report(report_name) ==
    /\ pc = "idle"
    /\ IF report_name \in {"", "Please select a report."}
       THEN /\ ui' = "Please select a report from the dropdown."
            /\ UNCHANGED <<run_vars, attempts>>
       ELSE IF registry[report_name] = NoReport
       THEN /\ ui' = "not found"
            /\ UNCHANGED <<run_vars, attempts>>
       ELSE /\ attempts < MaxAttempts
            /\ attempts' = attempts + 1
            /\ ui' = "running"
            /\ ExecuteStart(registry[report_name], report_name, "run_selected_report")
    /\ UNCHANGED <<store_vars, directs, scan_vars, ingest_vars>>

\* _execute_report called on a code that was not taken from the registry
execute_report_direct(code) ==
    /\ pc = "idle"
    /\ directs < MaxDirect
    /\ directs' = directs + 1
    /\ ExecuteStart(code, "", "direct")
    /\ UNCHANGED <<store_vars, ui, attempts, scan_vars, ingest_vars>>

\* ---------------------------------------------------------------- the worker
Alive(ws) == ws \in {"running", "posted", "flushed"}

\* main.py 231-237: what running the code in the restricted namespace comes to
Effective(code, b) ==
    IF ~code.parses THEN Behaviour("raise", "", "SyntaxError", FALSE, FALSE)
    ELSE IF HasImport(code.top) /\ "__import__" \notin BuiltinsAvailable
    THEN Behaviour("raise", "", "ImportError", FALSE, FALSE)
    ELSE IF code.def # "generate_report"
    THEN Behaviour("missing", "", "", FALSE, FALSE)
    ELSE IF HasImport(code.body) /\ "__import__" \notin BuiltinsAvailable
    THEN Behaviour("raise", "", "ImportError", FALSE, FALSE)
    ELSE IF b.mutates /\ ~WritableStoreReachable
    THEN Behaviour("raise", "", "OperationalError", FALSE, FALSE)
    ELSE b

\* main.py 241: the faults the worker's handler catches
Caught(category) == category \in ExceptionCategories

\* result_queue.put: the message goes to the queue's buffer
Post(m) ==
    /\ wbuf' = <<m>>
    /\ wstate' = "posted"
    /\ posted' = IF expired THEN posted ELSE m

\* main.py 231-242: exec of the code and the call of the entry point
WorkerRun ==
    /\ pc \in {"join", "check_alive"}
    /\ wstate = "running"
    /\ LET e == Effective(req.code, behaviour) IN
        \/ /\ e.kind = "return"
           /\ db' = IF e.mutates THEN {} ELSE db
           /\ Post(Message("success", e.shape, NoText, e.big))
           /\ fault' = fault
        \/ /\ e.kind = "missing"
           /\ Post(Message("error", "", EntryNotFound, FALSE))
           /\ UNCHANGED <<db, fault>>
        \/ /\ e.kind = "raise"
           /\ Caught(e.category)
           /\ fault' = e.category
           /\ Post(Message("error", "", FaultText(e.category, e.big), e.big))
           /\ db' = db
        \/ /\ e.kind = "raise"
           /\ ~Caught(e.category)
           /\ fault' = e.category
           /\ wstate' = "exited"
           /\ UNCHANGED <<db, wbuf, posted>>
        \/ /\ e.kind = "exit"
           /\ wstate' = "exited"
           /\ UNCHANGED <<db, wbuf, posted, fault>>
    /\ UNCHANGED <<registry, audit_log, pc, caller, req, verdict, behaviour, pipe, expired,
                   ret, ui, spawned, count_vars, db_before, alive_at_wait_end, scan_vars, ingest_vars>>

\* the queue's feeder thread writes the buffer to the pipe; a message larger than
\* the pipe holds is not written out while nobody reads the other end
WorkerFlush ==
    /\ pc \in {"join", "check_alive"}
    /\ wstate = "posted"
    /\ ~wbuf[1].big
    /\ pipe' = wbuf
    /\ wbuf' = <<>>
    /\ wstate' = "flushed"
    /\ UNCHANGED <<store_vars, pc, caller, req, verdict, behaviour, expired, ret, ui,
                   spawned, count_vars, posted, fault, db_before, alive_at_wait_end, scan_vars, ingest_vars>>

\* the process ends once the feeder has written everything out
WorkerExit ==
    /\ pc \in {"join", "check_alive"}
    /\ wstate = "flushed"
    /\ wstate' = "exited"
    /\ UNCHANGED <<store_vars, pc, caller, req, verdict, behaviour, wbuf, pipe, expired,
                   ret, ui, spawned, count_vars, posted, fault, db_before, alive_at_wait_end, scan_vars, ingest_vars>>

\* ---------------------------------------------------------------- the supervisor
\* REPORT_TIMEOUT_SECONDS elapse while the caller is in join
DeadlineExpires ==
    /\ pc = "join"
    /\ ~expired
    /\ expired' = TRUE
    /\ UNCHANGED <<store_vars, pc, caller, req, verdict, wstate, behaviour, wbuf, pipe,
                   ret, ui, spawned, count_vars, posted, fault, db_before, alive_at_wait_end, scan_vars, ingest_vars>>

\* a join without timeout
JoinMayReturn_NoTimeout(ws, timeIsUp) == ~Alive(ws)

\* main.py 256: join(timeout) returns when the process has ended or the time is up
JoinMayReturn(ws, timeIsUp) == ~Alive(ws) \/ timeIsUp

JoinReturns ==
    /\ pc = "join"
    /\ JoinMayReturn(wstate, expired)
    /\ pc' = "check_alive"
    /\ alive_at_wait_end' = Alive(wstate)
    /\ UNCHANGED <<store_vars, caller, req, verdict, wstate, behaviour, wbuf, pipe, expired,
                   ret, ui, spawned, count_vars, posted, fault, db_before, scan_vars, ingest_vars>>

\* the timeout is reported and the process left running
Terminate_Skipped(ws) == ws

\* main.py 259-260: terminate() and the join that reaps the process
Terminate(ws) == "killed"

\* main.py 266-270
Outcome(m) ==
    IF m.status = "error" THEN Result(FALSE, None, m.error)
    ELSE Result(TRUE, m.shape, NoText)

\* the timeout path takes a message that is in the pipe
TimeoutOutcome_ReadsLate(p) == IF p = <<>> THEN TimeoutResult ELSE Outcome(Head(p))

\* main.py 261: the timeout path returns without looking at the queue
TimeoutOutcome(p) == TimeoutResult

\* the queue is read without asking whether it is empty
QueueEmpty_NotAsked(p) == FALSE

\* main.py 263: result_queue.empty(), asked once the process has ended
QueueEmpty(p) == p = <<>>

\* main.py 258-270; get() at line 266 waits for as long as the pipe holds nothing
AfterJoin ==
    /\ pc = "check_alive"
    /\ pc' = "returned"
    /\ IF Alive(wstate)
       THEN /\ wstate' = Terminate(wstate)
            /\ ret' = TimeoutOutcome(pipe)
            /\ pipe' = pipe
       ELSE IF QueueEmpty(pipe)
       THEN /\ ret' = NoResultProduced
            /\ UNCHANGED <<wstate, pipe>>
       ELSE /\ pipe # <<>>
            /\ ret' = Outcome(Head(pipe))
            /\ pipe' = Tail(pipe)
            /\ wstate' = wstate
    /\ UNCHANGED <<store_vars, caller, req, verdict, behaviour, wbuf, expired, ui, spawned,
                   count_vars, posted, fault, db_before, alive_at_wait_end, scan_vars, ingest_vars>>

\* ---------------------------------------------------------------- _log_execution
Min(a, b) == IF a < b THEN a ELSE b

\* the file opened with "w": the line replaces the log
_log_execution_Overwrite(log, report_name, success, error) ==
    <<[report_name |-> report_name, success |-> success,
       error |-> IF error.len > 0 THEN Text(error.text, Min(error.len, 500)) ELSE NoText]>>

\* main.py 273-281: one line appended; the error cut to 500 characters, null if empty
_log_execution(log, report_name, success, error) ==
    Append(log, [report_name |-> report_name, success |-> success,
                 error |-> IF error.len > 0 THEN Text(error.text, Min(error.len, 500))
                           ELSE NoText])

\* main.py 329
LogExecution ==
    /\ pc = "returned"
    /\ caller = "run_selected_report"
    /\ audit_log' = _log_execution(audit_log, req.name, ret.success, ret.error)
    /\ pc' = "logged"
    /\ UNCHANGED <<registry, db, caller, req, verdict, wstate, behaviour, wbuf, pipe,
                   expired, ret, ui, spawned, count_vars, posted, fault, db_before,
                   alive_at_wait_end, scan_vars, ingest_vars>>

\* main.py 331-340
RunReturn ==
    /\ pc = "logged"
    /\ ui' = IF ~ret.success THEN "Error executing report" ELSE ret.result
    /\ Reset
    /\ UNCHANGED <<store_vars, count_vars, scan_vars, ingest_vars>>

DirectReturn ==
    /\ pc = "returned"
    /\ caller = "direct"
    /\ Reset
    /\ UNCHANGED <<store_vars, ui, count_vars, scan_vars, ingest_vars>>

\* ---------------------------------------------------------------- specifications
Next ==
    \/ \E c \in ExecSources, n \in Names \cup {""} : import_new_code(c, n)
    \/ \E n \in NameInputs : run_selected_report(n)
    \/ WorkerRun
    \/ WorkerFlush
    \/ WorkerExit
    \/ DeadlineExpires
    \/ JoinReturns
    \/ AfterJoin
    \/ LogExecution
    \/ RunReturn

\* the application: reports are imported and run through the two handlers
Spec == Init /\ [][Next]_vars

\* _execute_report alone, called on any code
NextExec ==
    \/ \E c \in ExecSources : execute_report_direct(c)
    \/ WorkerRun
    \/ WorkerFlush
    \/ WorkerExit
    \/ DeadlineExpires
    \/ JoinReturns
    \/ AfterJoin
    \/ DirectReturn

SpecExec == Init /\ [][NextExec]_vars

\* time passes and the calling thread runs; nothing is assumed of the worker
FairSpecExec ==
    /\ SpecExec
    /\ WF_vars(DeadlineExpires)
    /\ WF_vars(JoinReturns)
    /\ WF_vars(AfterJoin)

\* the scanner alone, on every source text of the bounded set
InitScan ==
    /\ registry = [n \in Names |-> NoReport]
    /\ audit_log = <<>>
    /\ db = InitialRows
    /\ IdleRun
    /\ ui = "loaded"
    /\ attempts = 0
    /\ directs = 0
    /\ scan_in \in AllSources
    /\ scan_out = NoVerdict
    /\ data_in = <<>>
    /\ data_files = SeededRun.store.files
    /\ columns = SeededRun.store.cols
    /\ row_seq = SeededRun.store.seq
    /\ archive = SeededRun.archive
    /\ ingest_out = [processed |-> <<>>, errors |-> <<>>]
    /\ ingests = 0

ScanStep ==
    /\ scan_out = NoVerdict
    /\ scan_out' = _scan_code_safety(scan_in)
    /\ UNCHANGED <<store_vars, run_vars, ui, count_vars, scan_in, ingest_vars>>

NextScan == ScanStep

SpecScan == InitScan /\ [][NextScan]_vars

\* ---------------------------------------------------------------- ingestion
\* a file is put into data-in, as long as a call of ingest_new_files is still to
\* come; every file put is in data-in or in data-archive
PutFile(f) ==
    /\ pc = "idle"
    /\ ingests < MaxIngests
    /\ archive + Len(data_in) < MaxFiles
    /\ data_in' = Append(data_in, f)
    /\ UNCHANGED <<store_vars, run_vars, ui, count_vars, scan_vars, data_files, columns,
                   row_seq, archive, ingest_out, ingests>>

\* db_manager.py 144-174
ingest_new_files ==
    /\ pc = "idle"
    /\ ingests < MaxIngests
    /\ ingests' = ingests + 1
    /\ LET run == IngestAll(data_in, StartRun(Store(db, row_seq, data_files, columns),
                                              archive))
       IN /\ db' = run.store.table
          /\ row_seq' = run.store.seq
          /\ data_files' = run.store.files
          /\ columns' = run.store.cols
          /\ archive' = run.archive
          /\ data_in' = run.left
          /\ ingest_out' = [processed |-> run.processed, errors |-> run.errors]
    /\ db_before' = db'
    /\ UNCHANGED <<registry, audit_log, pc, caller, req, verdict, wstate, behaviour, wbuf,
                   pipe, expired, ret, spawned, posted, fault, alive_at_wait_end, ui,
                   count_vars, scan_vars>>

\* ingestion alone, from the tables as _init_db creates them
InitIngest ==
    /\ registry = [n \in Names |-> NoReport]
    /\ audit_log = <<>>
    /\ db = EmptyStore.table
    /\ IdleRun
    /\ ui = "loaded"
    /\ attempts = 0
    /\ directs = 0
    /\ scan_in = NoReport
    /\ scan_out = NoVerdict
    /\ data_in = <<>>
    /\ data_files = EmptyStore.files
    /\ columns = EmptyStore.cols
    /\ row_seq = EmptyStore.seq
    /\ archive = 0
    /\ ingest_out = [processed |-> <<>>, errors |-> <<>>]
    /\ ingests = 0

NextIngest ==
    \/ \E f \in Files : PutFile(f)
    \/ ingest_new_files

SpecIngest == InitIngest /\ [][NextIngest]_vars

\* ---------------------------------------------------------------- properties

\* C1: a process is started only for code the scanner admits; when
\* _execute_report returns for a code the scanner rejects (syntax error,
\* forbidden import, forbidden pattern) it returns failure and the call has
\* started no process.
C1_NoSpawnOnRejection ==
    /\ (spawned > 0 \/ wstate # "none") => _scan_code_safety(req.code).admitted
    /\ (pc = "returned" /\ ~_scan_code_safety(req.code).admitted) =>
            /\ ~ret.success
            /\ ret = ScanFailure(_scan_code_safety(req.code))
            /\ spawned = 0
            /\ wstate = "none"

C1_Witness ==
    /\ pc = "returned"
    /\ _scan_code_safety(req.code).kind = "Forbidden import"
    /\ ret.error.text[1] = "Security scan failed"
    /\ spawned = 0

\* C2: after M executions started through run_selected_report the audit log
\* holds exactly M records (while one is under way, the record of that one is
\* still to come), and a step never changes or removes a record already there.
C2_Count ==
    IF pc \in {"idle", "logged"} THEN Len(audit_log) = attempts
    ELSE Len(audit_log) = attempts - 1

C2_AppendOnly ==
    /\ Len(audit_log') >= Len(audit_log)
    /\ Len(audit_log') <= Len(audit_log) + 1
    /\ \A i \in 1..Len(audit_log) : audit_log'[i] = audit_log[i]

C2_OneRecordPerAttempt == [](C2_Count) /\ [][C2_AppendOnly]_vars

C2_Witness ==
    /\ pc = "idle"
    /\ attempts = 2
    /\ Len(audit_log) = 2
    /\ audit_log[1].success
    /\ audit_log[2].error.text = TimeoutResult.error.text

\* C3: whenever _execute_report has returned, by whatever path, the worker
\* started for the request is not alive; a Timeout result comes with a worker
\* that was terminated.
C3_NoWorkerOutlivesRequest ==
    /\ pc \in {"returned", "logged", "idle"} => ~Alive(wstate)
    /\ (pc = "returned" /\ ret = TimeoutResult) => wstate = "killed"

C3_Witness ==
    /\ pc = "returned"
    /\ ret = TimeoutResult
    /\ wstate = "killed"
    /\ spawned = 1

C5_PostedResultIsReturned ==
    (pc = "returned" /\ posted # NoMessage) => ret = Outcome(posted)

\* C6: a fault raised while the code is loaded or the entry point runs comes
\* back from _execute_report as a failure whose message names the fault's
\* category (the case where the deadline cut the worker off is left aside).
C6_FaultIsRelayed ==
    (pc = "returned" /\ fault # "" /\ ret # TimeoutResult) =>
        /\ ~ret.success
        /\ ret.error.text[1] = fault

\* C7: for a text that parses and holds an import statement, at either depth,
\* naming no module of the allowlist, the scanner rejects with a forbidden
\* import as the reason.
C7_NamesUnlistedModule(node) ==
    \/ node.kind = "Import" /\ \E i \in 1..Len(node.names) : node.names[i] \notin ALLOWED_IMPORTS
    \/ node.kind = "ImportFrom" /\ node.module \notin ALLOWED_IMPORTS

C7_UnlistedImportRejected ==
    (/\ scan_out # NoVerdict
     /\ scan_in.parses
     /\ \E i \in 1..Len(AstWalk(scan_in)) : C7_NamesUnlistedModule(AstWalk(scan_in)[i]))
        => (~scan_out.admitted /\ scan_out.kind = "Forbidden import")

\* C8: when _execute_report returns for an admitted submission, the data store
\* holds what it held when the execution started.
C8_StoreUnchanged ==
    (pc = "returned" /\ spawned = 1) => db = db_before

\* C9: a run whose entry point returned a value that is neither a table nor a
\* chart is reported as a failure of kind UnsupportedResultType, and its audit
\* record has success = false; a result reported as success is a table or a
\* chart.
C9_AcceptedShapes == {"table", "chart"}

C9_OtherShapesFail ==
    pc = "logged" =>
        /\ ret.success => ret.result \in C9_AcceptedShapes
        /\ (posted.status = "success" /\ posted.shape \notin C9_AcceptedShapes
                /\ ret # TimeoutResult) =>
              /\ ~ret.success
              /\ ret.error.text[1] = "UnsupportedResultType"
              /\ ~audit_log[Len(audit_log)].success

\* C10: every report in the registry is code the scanner admits, and a step in
\* which import_new_code answers that the scan failed leaves the registry as
\* it was.
C10_RegistryAdmitted ==
    \A n \in Names : registry[n] # NoReport => _scan_code_safety(registry[n]).admitted

C10_RejectedLeavesRegistry ==
    ui' = "Security scan failed" => registry' = registry

C10_OnlyAdmittedIsSaved ==
    [](C10_RegistryAdmitted) /\ [][C10_RejectedLeavesRegistry]_vars

C10_Witness ==
    /\ ui = "Security scan failed"
    /\ registry["sales"] = CleanReport
    /\ registry["stock"] = NoReport

\* C11 as stated: whenever the worker was alive when the bounded wait ended,
\* _execute_report returns the Timeout failure.
C11_AliveAtWaitEndIsTimeout ==
    (pc = "returned" /\ alive_at_wait_end) => ret = TimeoutResult

\* C11 as amended: whenever is_alive(), asked after the bounded wait, finds the
\* worker alive, the worker is terminated and _execute_report returns the
\* Timeout failure, whatever the worker has put on the queue; the queue is
\* not read.
C11_AliveAtCheckIsTimeout ==
    [][(pc = "check_alive" /\ pc' = "returned" /\ Alive(wstate))
            => (ret' = TimeoutResult /\ pipe' = pipe /\ wstate' = "killed")]_vars

C11_Witness ==
    /\ pc = "returned"
    /\ wstate = "killed"
    /\ pipe # <<>>
    /\ posted # NoMessage
    /\ ret = TimeoutResult

\* C13: a worker that has ended without putting a message on the queue makes
\* _execute_report return, and what it returns is the NoResultProduced failure.
C13_EndedSilently ==
    /\ wstate = "exited"
    /\ \/ Effective(req.code, behaviour).kind = "exit"
       \/ /\ Effective(req.code, behaviour).kind = "raise"
          /\ ~Caught(Effective(req.code, behaviour).category)

C13_SilentExitIsNoResult ==
    /\ [](pc = "returned" /\ C13_EndedSilently => ret = NoResultProduced)
    /\ (pc = "join" /\ C13_EndedSilently /\ ~expired)
            ~> (pc = "returned" /\ C13_EndedSilently /\ ret = NoResultProduced)

C13_Witness ==
    /\ pc = "returned"
    /\ C13_EndedSilently
    /\ ~expired
    /\ pipe = <<>>
    /\ ret = NoResultProduced

\* C14: no two rows of data_records share a row_hash; for every file a call
\* of ingest_new_files processed, imported + skipped is the number of its rows;
\* a file whose rows were all stored already is processed, not reported as an
\* error, adds no row and has every row counted as skipped.
C14_AllStored(entry) ==
    \A k \in 1..Len(entry.file.rows) :
        _get_file_hash(RowsData(entry.file)[k]) \in entry.before

C14_DuplicateFreeIngestion ==
    /\ \A r1 \in db : \A r2 \in db : r1.row_hash = r2.row_hash => r1 = r2
    /\ Cardinality(db) = Cardinality(Hashes(db))
    /\ \A i \in 1..Len(ingest_out.processed) :
        LET p == ingest_out.processed[i] IN
            /\ p.imported + p.skipped = Len(p.file.rows)
            /\ C14_AllStored(p) =>
                    /\ p.imported = 0
                    /\ p.skipped = Len(p.file.rows)
                    /\ p.after = p.before
    /\ \A i \in 1..Len(ingest_out.errors) :
        ~(Len(ingest_out.errors[i].file.rows) > 0 /\ C14_AllStored(ingest_out.errors[i]))

C14_Witness ==
    /\ ingests = 2
    /\ Cardinality(db) = 2
    /\ \E i \in 1..Len(ingest_out.processed) :
        /\ Len(ingest_out.processed[i].file.rows) = 2
        /\ C14_AllStored(ingest_out.processed[i])
        /\ ingest_out.processed[i].imported = 0
        /\ ingest_out.processed[i].skipped = 2

====
